---- MODULE Spec2Model ----
(***************************************************************************)
(* The Veritas job pipeline: the job API and store, the redis job queue,   *)
(* the worker loop, run_job with its stages, and the provenance (Merkle)   *)
(* computation.  Two deployments of the pipeline live in the repository:   *)
(* apps/veritas_* ("apps", specification Spec) and veritas-nexus/*         *)
(* ("nexus", specification NexusSpec); a behaviour runs one of them.       *)
(* OneSpec is either deployment with a single fair worker, MerkleSpec the  *)
(* provenance engine alone on bounded sentence lists, FileSpec the writing *)
(* and reading of corpus.jsonl and corpus_prov.jsonl for bounded fetches.  *)
(*                                                                         *)
(* Conventions.  A text is a sequence of one-character strings.  A json    *)
(* object is a record, a missing key is a missing field.  A file is an     *)
(* entry of a function keyed by job id; a job without the file is outside  *)
(* the function's domain.  progress is kept in hundredths (0.05 is 5).     *)
(* SHA-256 is modelled as an injective symbolic hash: the digest of s is s *)
(* between the two marks "<" and ">", which no text contains, so that a    *)
(* concatenation of digests decodes uniquely as one of hex digests does.   *)
(***************************************************************************)
EXTENDS Integers, Sequences, FiniteSets, TLC

\* ---------------------------------------------------------------- bounds
MaxJobs == 2
NumWorkers == 2
MaxFailures == 1
MaxSentences == 4

JobIds == 1..MaxJobs
Workers == 1..NumWorkers

\* the jobs that an exception can hit (a failing store or queue, a malformed
\* segment): the first MaxFailures jobs created
FaultyJobs == 1..MaxFailures

\* ------------------------------------------------------ provenance engine
sha256(s) == <<"<">> \o s \o <<">">>

\* tasks.py _provenance, inner function h
h(s) == <<"<">> \o s \o <<">">>

\* a variant of merkle_pad: an odd layer is filled up with the digest of the
\* empty string
merkle_pad_with_empty(layer) ==
    IF Len(layer) % 2 = 1 THEN Append(layer, sha256(<<>>)) ELSE layer

\* server.py merkle_root, line 12: duplicate the last digest of an odd layer
merkle_pad(layer) ==
    IF Len(layer) % 2 = 1 THEN Append(layer, layer[Len(layer)]) ELSE layer

\* a variant of merkle_pairs: the two digests of a pair are put in a fixed
\* order before they are hashed
merkle_pairs_sorted(layer) ==
    [k \in 1..(Len(layer) \div 2) |->
        LET lo == CHOOSE x \in {layer[2 * k - 1], layer[2 * k]} : TRUE
            hi == IF lo = layer[2 * k - 1] THEN layer[2 * k]
                  ELSE layer[2 * k - 1]
        IN sha256(lo \o hi)]

\* server.py merkle_root, line 13: hash each adjacent pair
merkle_pairs(layer) ==
    [k \in 1..(Len(layer) \div 2) |-> sha256(layer[2 * k - 1] \o layer[2 * k])]

RECURSIVE merkle_loop(_)
merkle_loop(layer) ==
    IF Len(layer) > 1 THEN merkle_loop(merkle_pairs(merkle_pad(layer)))
    ELSE layer[1]

\* a variant of merkle_root: the root of no digests is the empty string
merkle_root_empty_unhashed(hashes) ==
    IF hashes = <<>> THEN <<>> ELSE merkle_loop(hashes)

\* server.py merkle_root, lines 8-14
merkle_root(hashes) ==
    IF hashes = <<>> THEN sha256(<<>>) ELSE merkle_loop(hashes)

\* server.py hash_sentences
hash_sentences(sents) ==
    LET hs == [k \in 1..Len(sents) |-> sha256(sents[k])]
    IN [hashes |-> hs, merkle_root |-> merkle_root(hs)]

\* tasks.py _provenance, line 60
prov_pad(layer) ==
    IF Len(layer) % 2 = 1 THEN Append(layer, layer[Len(layer)]) ELSE layer

\* a variant of prov_pairs: the right digest of a pair goes first
prov_pairs_reversed(layer) ==
    [k \in 1..(Len(layer) \div 2) |-> h(layer[2 * k] \o layer[2 * k - 1])]

\* tasks.py _provenance, line 61
prov_pairs(layer) ==
    [k \in 1..(Len(layer) \div 2) |-> h(layer[2 * k - 1] \o layer[2 * k])]

RECURSIVE prov_loop(_)
prov_loop(layer) ==
    IF Len(layer) > 1 THEN prov_loop(prov_pairs(prov_pad(layer)))
    ELSE layer[1]

\* tasks.py _provenance, lines 54-63, for one record d of the corpus
prov_record(d) ==
    LET hs == [k \in 1..Len(d.sentences) |-> h(d.sentences[k].text)]
        root == IF hs = <<>> THEN h(<<>>) ELSE prov_loop(hs)
    IN [sentence_hashes |-> hs, merkle_root |-> root]

\* tasks.py _provenance: every line of the corpus gets its prov field
_provenance(lines) ==
    [k \in 1..Len(lines) |-> [prov |-> prov_record(lines[k])] @@ lines[k]]

\* ------------------------------------------------------------ connectors
Space == " "

\* str.strip(): drop the leading and the trailing blanks of a text
RECURSIVE strip(_)
strip(t) ==
    IF t = <<>> THEN t
    ELSE IF Head(t) = Space THEN strip(Tail(t))
    ELSE IF t[Len(t)] = Space THEN strip(SubSeq(t, 1, Len(t) - 1))
    ELSE t

\* list.sort(key=...) is stable: x goes behind the elements whose key is not
\* greater than its own
insert_by_key(sorted, x) ==
    SelectSeq(sorted, LAMBDA y : y[1] <= x[1]) \o <<x>>
        \o SelectSeq(sorted, LAMBDA y : y[1] > x[1])

RECURSIVE sort_by_key(_)
sort_by_key(s) ==
    IF s = <<>> THEN <<>>
    ELSE insert_by_key(sort_by_key(SubSeq(s, 1, Len(s) - 1)), s[Len(s)])

take(s, n) == SubSeq(s, 1, IF n < Len(s) THEN n ELSE Len(s))

\* tasks.py _yt_oldest_ids on the output out of yt-dlp: out.ok is FALSE when
\* the subprocess or the json parse raises.  upload_date 0 stands for a
\* missing date (the key "" sorts before every date), id <<>> for a missing id.
_yt_oldest_ids(out, limit) ==
    IF ~out.ok THEN <<>>
    ELSE LET named == SelectSeq(out.entries, LAMBDA e : strip(e.id) # <<>>)
             vids == [k \in 1..Len(named) |->
                         <<named[k].upload_date, strip(named[k].id)>>]
             sorted == sort_by_key(vids)
         IN [k \in 1..Len(take(sorted, limit)) |-> sorted[k][2]]

\* the video ids and the yt-dlp outputs the connector is tried with
V1 == <<"v", "1">>
V2 == <<"v", "2">>
V3 == <<"v", "3">>
YtDlpOutputs ==
    { [ok |-> FALSE, entries |-> <<>>],
      [ok |-> TRUE, entries |-> <<>>],
      [ok |-> TRUE, entries |-> << [id |-> V3, upload_date |-> 0],
                                   [id |-> <<>>, upload_date |-> 1],
                                   [id |-> V1, upload_date |-> 0] >>] }

\* what YT.get_transcript answers for one video: a transcript, or an
\* exception whose str() is err.  The fetch of V1 may fail with a message,
\* that of V2 with an exception that carries none (as TimeoutError() does);
\* the other videos are always there.
TextA == <<"a">>
Transcripts ==
    { << [text |-> <<Space>>, start |-> 0], [text |-> TextA, start |-> 1] >> }
FetchAnswers(vid) ==
    [raised : {FALSE}, tr : Transcripts, err : {<<>>}]
        \cup [raised : {TRUE}, tr : {<<>>},
              err : IF vid = V1 THEN {<<"x">>}
                    ELSE IF vid = V2 THEN {<<>>} ELSE {}]

\* tasks.py _transcript (apps): (transcript, None) or ([], str(e)); None is
\* modelled by the field none
_transcript(ans) ==
    IF ans.raised THEN [tr |-> <<>>, err |-> ans.err, none |-> FALSE]
    ELSE [tr |-> ans.tr, err |-> <<>>, none |-> TRUE]

\* tasks.py run_job, line 86: "if err" is the truth value of a str or None
truthy_err(r) == ~r.none /\ r.err # <<>>

\* tasks.py run_job, lines 88-91: the items of one fetched transcript
RECURSIVE segment_items(_, _)
segment_items(vid, tr) ==
    IF tr = <<>> THEN <<>>
    ELSE LET seg == Head(tr)
             t == strip(seg.text)
             rest == segment_items(vid, Tail(tr))
         IN IF t = <<>> THEN rest
            ELSE << [id |-> <<vid, seg.start * 1000>>, url |-> <<"watch", vid>>,
                     text |-> t,
                     meta |-> [video_id |-> vid,
                               timestamp_ms |-> seg.start * 1000]] >> \o rest

\* veritas-nexus tasks.py _transcript: the transcript, or [] on any exception
nexus_transcript(ans) == IF ans.raised THEN <<>> ELSE ans.tr

\* veritas-nexus tasks.py run_job, lines 57-59
RECURSIVE nexus_segment_items(_, _)
nexus_segment_items(vid, tr) ==
    IF tr = <<>> THEN <<>>
    ELSE LET seg == Head(tr)
             rest == nexus_segment_items(vid, Tail(tr))
         IN IF seg.text = <<>> THEN rest
            ELSE << [id |-> <<vid, seg.start * 1000>>, url |-> <<"watch", vid>>,
                     text |-> strip(seg.text)] >> \o rest

\* ---------------------------------------------------------- canonicalizer
\* tasks.py _canonicalize: one line per item
_canonicalize(its) ==
    [k \in 1..Len(its) |->
        [doc_id |-> its[k].id, url |-> its[k].url,
         sentences |-> << [text |-> its[k].text] >>,
         meta |-> its[k].meta]]

\* veritas-nexus tasks.py _canonicalize; created_at is never set on an item
nexus_canonicalize(its) ==
    [k \in 1..Len(its) |->
        [doc_id |-> its[k].id, url |-> its[k].url, created_at |-> "null",
         sentences |-> << [text |-> its[k].text] >>]]

\* ------------------------------------------------------------------ state
VARIABLES
    variant,            \* "apps" or "nexus": the deployment that runs
    request_json,       \* job id -> runs/<id>/request.json
    status_json,        \* job id -> runs/<id>/status.json
    results_json,       \* job id -> runs/<id>/results.json
    corpus_jsonl,       \* job id -> the lines of runs/<id>/corpus.jsonl
    corpus_prov_jsonl,  \* job id -> the lines of runs/<id>/corpus_prov.jsonl
    queue,              \* the redis list veritas:jobs, head first
    api_pc,             \* job id -> how far POST /jobs for it has come
    pc,                 \* worker -> its position in the loop and in run_job
    item,               \* worker -> the job id brpop gave it, 0 for None
                        \*           (and before the first brpop)
    vids,               \* worker -> run_job's vids
    idx,                \* worker -> index of the next vid of "for vid in vids"
    items,              \* worker -> run_job's items
    missing,            \* worker -> run_job's missing
    enq,                \* history: job id -> number of lpush of it
    deq,                \* history: job id -> number of brpop that gave it
    arrivals,           \* history: the ids that wait for a worker, in the
                        \*          order of their lpush
    runs,               \* history: job id -> number of run_job calls for it
    raised,             \* history: job id -> run_job raised for it
    returned,           \* history: job id -> run_job returned for it
    resolved,           \* history: job id -> <<vids>> once discovery is over
    discovery,          \* history: job id -> <<out>> once yt-dlp ran for it
    fetch_raised,       \* history: job id -> the vids whose fetch raised
    sentences,          \* provenance tool: the sentence list under test
    srv_out,            \* provenance tool: <<answer of hash_sentences>>
    prov_out,           \* provenance tool: <<prov that apps _provenance writes>>
    nexus_prov_out,     \* provenance tool: <<prov that nexus _provenance writes>>
    fetched,            \* file tools: the transcripts fetched for one job, a
                        \*             list of [video_id, tr]
    corpus_file,        \* file tools: <<the characters of corpus.jsonl>>
    reread,             \* file tools: <<the records read back from it>>
    prov_file,          \* file tools: <<the lines of corpus_prov.jsonl>>
    prov_runs           \* file tools: the number of _provenance runs so far

storeVars == <<request_json, status_json, results_json, corpus_jsonl,
               corpus_prov_jsonl>>
localVars == <<vids, idx, items, missing>>
histVars == <<enq, deq, arrivals, runs, raised, returned, resolved,
              discovery, fetch_raised>>
fileVars == <<fetched, corpus_file, reread, prov_file, prov_runs>>
toolVars == <<sentences, srv_out, prov_out, nexus_prov_out, fileVars>>
vars == <<variant, storeVars, queue, api_pc, pc, item, localVars, histVars,
         toolVars>>

\* Optional[List[str]]: <<>> is None, <<l>> is the list l
None == <<>>
Some(l) == <<l>>

\* python's "x or y" for an optional list x
or_else(x, y) == IF x = None \/ x[1] = <<>> THEN y ELSE x[1]

\* the request bodies POST /jobs is tried with (schemas.py RunRequest): the
\* first job names its videos, the second leaves them to discovery (no list,
\* or an empty one), a later job does either
VideoIdChoices(j) ==
    IF j = 1 THEN {Some(<<V2, V1>>)}
    ELSE IF j = 2 THEN {None, Some(<<>>)}
    ELSE {None, Some(<<>>), Some(<<V2, V1>>)}
Requests(j) ==
    IF variant = "apps"
    THEN [target : {"chan"}, max_items : {1}, order : {"oldest"},
          video_ids : VideoIdChoices(j)]
    ELSE [target : {"chan"}, max_items : {1}, video_ids : VideoIdChoices(j)]

EmptyDict == [k \in {} |-> 0]
QueuedStatus ==
    [state |-> "queued", stage |-> "queued", progress |-> 0,
     metrics |-> EmptyDict]

InitState ==
    /\ request_json = EmptyDict
    /\ status_json = EmptyDict
    /\ results_json = EmptyDict
    /\ corpus_jsonl = EmptyDict
    /\ corpus_prov_jsonl = EmptyDict
    /\ queue = <<>>
    /\ api_pc = [j \in JobIds |-> "unused"]
    /\ pc = [w \in Workers |-> "brpop"]
    /\ item = [w \in Workers |-> 0]
    /\ vids = [w \in Workers |-> <<>>]
    /\ idx = [w \in Workers |-> 0]
    /\ items = [w \in Workers |-> <<>>]
    /\ missing = [w \in Workers |-> <<>>]
    /\ enq = [j \in JobIds |-> 0]
    /\ deq = [j \in JobIds |-> 0]
    /\ arrivals = <<>>
    /\ runs = [j \in JobIds |-> 0]
    /\ raised = [j \in JobIds |-> FALSE]
    /\ returned = [j \in JobIds |-> FALSE]
    /\ resolved = [j \in JobIds |-> None]
    /\ discovery = [j \in JobIds |-> None]
    /\ fetch_raised = [j \in JobIds |-> {}]

FileIdle ==
    /\ fetched = <<>>
    /\ corpus_file = None
    /\ reread = None
    /\ prov_file = None
    /\ prov_runs = 0

ToolIdle ==
    /\ sentences = <<>>
    /\ srv_out = None
    /\ prov_out = None
    /\ nexus_prov_out = None
    /\ FileIdle

\* ---------------------------------------------------------------- job API
\* store.py create_job: a fresh id (uuid4; ids are taken in order, any other
\* fresh id gives the same behaviour up to renaming), its directory,
\* request.json and the queued status.  Nobody knows the id before create_job
\* returns it, so its two writes are one step.
create_job(j, payload) ==
    /\ request_json' = (j :> payload) @@ request_json
    /\ status_json' = (j :> QueuedStatus) @@ status_json

\* main.py create, line 19
CreateJob(j, body) ==
    /\ api_pc[j] = "unused"
    /\ \A k \in JobIds : k < j => api_pc[k] # "unused"
    /\ create_job(j, body)
    /\ api_pc' = [api_pc EXCEPT ![j] = "lpush"]
    /\ UNCHANGED <<variant, results_json, corpus_jsonl, corpus_prov_jsonl,
                   queue, pc, item, localVars, histVars, toolVars>>

\* main.py create, lines 20-21: queue the id and answer
Lpush(j) ==
    /\ api_pc[j] = "lpush"
    /\ queue' = <<j>> \o queue
    /\ enq' = [enq EXCEPT ![j] = @ + 1]
    /\ arrivals' = Append(arrivals, j)
    /\ api_pc' = [api_pc EXCEPT ![j] = "returned"]
    /\ UNCHANGED <<variant, storeVars, pc, item, localVars, deq, runs, raised,
                   returned, resolved, discovery, fetch_raised, toolVars>>

\* main.py create, line 20: the lpush raises and the request is answered with
\* an error; the job's files stay
ApiFail(j) ==
    /\ api_pc[j] = "lpush"
    /\ j \in FaultyJobs
    /\ api_pc' = [api_pc EXCEPT ![j] = "failed"]
    /\ UNCHANGED <<variant, storeVars, queue, pc, item, localVars, histVars,
                   toolVars>>

\* store.py read_status and main.py status: the status or 404
read_status(j) == IF j \in DOMAIN status_json THEN status_json[j] ELSE EmptyDict
status(j) == IF read_status(j) = EmptyDict THEN 404 ELSE 200

\* store.py read_results and main.py results: 200 with the results, or 404
read_results(j) ==
    IF j \in DOMAIN results_json THEN results_json[j] ELSE EmptyDict
results(j) == IF read_results(j) = EmptyDict THEN 404 ELSE 200

\* ----------------------------------------------------------- worker loop
\* a variant of brpop: the id is read and stays in the list
brpop_peek(q) == [item |-> q[Len(q)], rest |-> q]

\* a variant of brpop: the id is taken from the end of the list that lpush
\* adds to
brpop_head(q) == [item |-> q[1], rest |-> Tail(q)]

\* worker.py line 11, a job is waiting: brpop takes the last element of the
\* list; the pop is one atomic redis command.  The workers blocked in brpop
\* are all in the same state, so the one that is served is taken to be the
\* first of them.
brpop(q) == [item |-> q[Len(q)], rest |-> SubSeq(q, 1, Len(q) - 1)]

BrpopItem(w) ==
    /\ pc[w] = "brpop"
    /\ \A v \in Workers : v < w => pc[v] # "brpop"
    /\ queue # <<>>
    /\ item' = [item EXCEPT ![w] = brpop(queue).item]
    /\ queue' = brpop(queue).rest
    /\ deq' = [deq EXCEPT ![brpop(queue).item] = @ + 1]
    /\ arrivals' = SelectSeq(arrivals, LAMBDA x : x # brpop(queue).item)
    /\ pc' = [pc EXCEPT ![w] = "run_job"]
    /\ UNCHANGED <<variant, storeVars, api_pc, localVars, enq, runs,
                   raised, returned, resolved, discovery, fetch_raised,
                   toolVars>>

\* a variant of BrpopTimeout: a timeout ends the loop, the worker stops
BrpopTimeout_breaks(w) ==
    /\ pc[w] = "brpop"
    /\ queue = <<>>
    /\ item' = [item EXCEPT ![w] = 0]
    /\ pc' = [pc EXCEPT ![w] = "exited"]
    /\ UNCHANGED <<variant, storeVars, queue, api_pc, localVars, histVars,
                   toolVars>>

\* worker.py lines 11-12, nothing arrives within the timeout: item is None
\* and the loop continues
BrpopTimeout(w) ==
    /\ pc[w] = "brpop"
    /\ queue = <<>>
    /\ item' = [item EXCEPT ![w] = 0]
    /\ UNCHANGED <<variant, storeVars, queue, api_pc, pc, localVars, histVars, toolVars>>

\* the worker is back at the top of its loop; the values run_job leaves
\* behind are dead and are cleared
BackToLoop(w) ==
    /\ pc' = [pc EXCEPT ![w] = "brpop"]
    /\ item' = [item EXCEPT ![w] = 0]
    /\ vids' = [vids EXCEPT ![w] = <<>>]
    /\ idx' = [idx EXCEPT ![w] = 0]
    /\ items' = [items EXCEPT ![w] = <<>>]
    /\ missing' = [missing EXCEPT ![w] = <<>>]

\* the positions of a worker inside run_job
RunPcs == {"run_job", "discover", "fetch", "canonicalize", "upd_provenance",
           "provenance", "upd_analyze", "results", "upd_done"}

\* the store accesses at which a failing store is tried: the read of the
\* request, the write of the corpus, the write of the last status
FailPoints == {"run_job", "canonicalize", "upd_done"}

\* a variant of on_exception: the handler puts the job back to queued
on_exception_requeues(st, j) == (j :> QueuedStatus) @@ st

\* worker.py lines 17-18: what the handler does with the job's status when
\* run_job raised: it logs the failure and writes nothing
on_exception(st, j) == st

\* a variant of Raise: the exception is not caught and ends the worker
Raise_uncaught(w) ==
    /\ pc[w] \in FailPoints
    /\ item[w] \in FaultyJobs
    /\ raised' = [raised EXCEPT ![item[w]] = TRUE]
    /\ runs' = [runs EXCEPT ![item[w]] = IF pc[w] = "run_job" THEN @ + 1 ELSE @]
    /\ pc' = [pc EXCEPT ![w] = "exited"]
    /\ UNCHANGED <<variant, storeVars, queue, api_pc, item, localVars, enq, deq, arrivals, discovery,
                   returned, resolved, fetch_raised, toolVars>>

\* worker.py lines 15-18: an exception leaves run_job (a read or write of the
\* store fails, a segment has no start); the handler runs and the loop goes on
Raise(w) ==
    /\ pc[w] \in FailPoints
    /\ item[w] \in FaultyJobs
    /\ status_json' = on_exception(status_json, item[w])
    /\ raised' = [raised EXCEPT ![item[w]] = TRUE]
    /\ runs' = [runs EXCEPT ![item[w]] = IF pc[w] = "run_job" THEN @ + 1 ELSE @]
    /\ BackToLoop(w)
    /\ UNCHANGED <<variant, request_json, results_json, corpus_jsonl,
                   corpus_prov_jsonl, queue, api_pc, enq, deq, arrivals, discovery, returned,
                   resolved, fetch_raised, toolVars>>

\* ----------------------------------------------------------- run_job, apps
\* a variant of upd: an error status starts from progress 0
upd_error_resets_progress(j, state, stage, prog, extra) ==
    (j :> (extra @@ [state |-> state, stage |-> stage,
                     progress |-> IF state = "error" THEN 0 ELSE prog]))
        @@ status_json

\* tasks.py upd, lines 70-71: the status file is overwritten wholesale
upd(j, state, stage, prog, extra) ==
    (j :> (extra @@ [state |-> state, stage |-> stage, progress |-> prog]))
        @@ status_json

\* run_job returns normally
Return(w) ==
    /\ returned' = [returned EXCEPT ![item[w]] = TRUE]
    /\ BackToLoop(w)

\* tasks.py lines 69-73: read the request, status running/discover
RunJobStart(w) ==
    /\ variant = "apps"
    /\ pc[w] = "run_job"
    /\ item[w] \in DOMAIN request_json
    /\ status_json' = upd(item[w], "running", "discover", 5, EmptyDict)
    /\ runs' = [runs EXCEPT ![item[w]] = @ + 1]
    /\ pc' = [pc EXCEPT ![w] = "discover"]
    /\ UNCHANGED <<variant, request_json, results_json, corpus_jsonl,
                   corpus_prov_jsonl, queue, api_pc, item, localVars, enq, deq, arrivals, discovery, raised, returned, resolved, fetch_raised,
                   toolVars>>

\* a variant of discover_vids: the ids are always those of discovery
discover_vids_ignores_request(req, out) ==
    _yt_oldest_ids(out, req.max_items)

\* tasks.py lines 74-76: the ids of the request, or else those of discovery
discover_vids(req, out) ==
    or_else(req.video_ids, _yt_oldest_ids(out, req.max_items))

\* tasks.py line 76: "or" evaluates its right side, the call of yt-dlp, only
\* when the request names no ids; <<out>> is the call and its output
yt_call(req, out) ==
    IF or_else(req.video_ids, <<>>) # <<>> THEN None ELSE Some(out)

\* a variant of DiscoverEmpty: a failed yt-dlp call has a message of its own
DiscoverEmpty_tells_failure(w, out) ==
    /\ variant = "apps"
    /\ pc[w] = "discover"
    /\ discover_vids(request_json[item[w]], out) = <<>>
    /\ status_json' = upd(item[w], "error", "discover", 10,
                          [message |-> IF out.ok THEN "No videos found"
                                       ELSE "Discovery failed"])
    /\ resolved' = [resolved EXCEPT ![item[w]] = Some(<<>>)]
    /\ discovery' = [discovery EXCEPT
                       ![item[w]] = yt_call(request_json[item[w]], out)]
    /\ Return(w)
    /\ UNCHANGED <<variant, request_json, results_json, corpus_jsonl,
                   corpus_prov_jsonl, queue, api_pc, enq, deq, arrivals, runs,
                   raised, fetch_raised, toolVars>>

\* tasks.py lines 77-79: nothing to process
DiscoverEmpty(w, out) ==
    /\ variant = "apps"
    /\ pc[w] = "discover"
    /\ discover_vids(request_json[item[w]], out) = <<>>
    /\ status_json' = upd(item[w], "error", "discover", 10,
                          [message |-> "No videos found"])
    /\ resolved' = [resolved EXCEPT ![item[w]] = Some(<<>>)]
    /\ discovery' = [discovery EXCEPT
                       ![item[w]] = yt_call(request_json[item[w]], out)]
    /\ Return(w)
    /\ UNCHANGED <<variant, request_json, results_json, corpus_jsonl,
                   corpus_prov_jsonl, queue, api_pc, enq, deq, arrivals, runs,
                   raised, fetch_raised, toolVars>>

\* tasks.py lines 76-83: there are ids, the loop over them starts
DiscoverFound(w, out) ==
    /\ variant = "apps"
    /\ pc[w] = "discover"
    /\ discover_vids(request_json[item[w]], out) # <<>>
    /\ vids' = [vids EXCEPT ![w] = discover_vids(request_json[item[w]], out)]
    /\ idx' = [idx EXCEPT ![w] = 1]
    /\ resolved' = [resolved EXCEPT
                      ![item[w]] = Some(discover_vids(request_json[item[w]], out))]
    /\ discovery' = [discovery EXCEPT
                       ![item[w]] = yt_call(request_json[item[w]], out)]
    /\ pc' = [pc EXCEPT ![w] = "fetch"]
    /\ UNCHANGED <<variant, storeVars, queue, api_pc, item, items, missing,
                   enq, deq, arrivals, runs, raised, returned, fetch_raised,
                   toolVars>>

\* a variant of FetchVid: a fetch that raises ends the job in state error
FetchVid_fatal(w, vid, ans) ==
    IF ans.raised
    THEN /\ status_json' = upd(item[w], "error", "fetch", 5,
                               [message |-> ans.err])
         /\ fetch_raised' = [fetch_raised EXCEPT ![item[w]] = @ \cup {vid}]
         /\ Return(w)
         /\ UNCHANGED <<variant, request_json, results_json, corpus_jsonl,
                        corpus_prov_jsonl, queue, api_pc, enq, deq, arrivals, discovery, runs,
                        raised, resolved, toolVars>>
    ELSE /\ items' = [items EXCEPT ![w] = @ \o segment_items(vid, ans.tr)]
         /\ idx' = [idx EXCEPT ![w] = @ + 1]
         /\ UNCHANGED <<variant, storeVars, queue, api_pc, pc, item, vids,
                        missing, histVars, toolVars>>

\* tasks.py lines 83-91: one turn of the loop over vids
FetchVid(w, vid, ans) ==
    /\ LET r == _transcript(ans)
       IN /\ IF truthy_err(r)
             THEN /\ missing' = [missing EXCEPT ![w] =
                        Append(@, [video_id |-> vid, error |-> r.err])]
                  /\ items' = items
             ELSE /\ items' = [items EXCEPT ![w] = @ \o segment_items(vid, r.tr)]
                  /\ missing' = missing
          /\ fetch_raised' = [fetch_raised EXCEPT ![item[w]] =
                                IF ans.raised THEN @ \cup {vid} ELSE @]
    /\ idx' = [idx EXCEPT ![w] = @ + 1]
    /\ UNCHANGED <<variant, storeVars, queue, api_pc, pc, item, vids, enq, deq, arrivals, discovery, runs, raised, returned, resolved, toolVars>>

Fetch(w) ==
    /\ variant = "apps"
    /\ pc[w] = "fetch"
    /\ idx[w] <= Len(vids[w])
    /\ \E ans \in FetchAnswers(vids[w][idx[w]]) :
           FetchVid(w, vids[w][idx[w]], ans)

\* a step of run_job that writes the status file and moves on
StatusStep(w, from, to, new_status) ==
    /\ pc[w] = from
    /\ status_json' = new_status
    /\ pc' = [pc EXCEPT ![w] = to]
    /\ UNCHANGED <<variant, request_json, results_json, corpus_jsonl,
                   corpus_prov_jsonl, queue, api_pc, item, localVars, histVars, toolVars>>

\* tasks.py line 93: the loop is over, status running/canonicalize
UpdCanonicalize(w) ==
    /\ variant = "apps"
    /\ idx[w] > Len(vids[w])
    /\ StatusStep(w, "fetch", "canonicalize",
           upd(item[w], "running", "canonicalize", 35,
               [metrics |-> [videos |-> Len(vids[w]),
                             segments |-> Len(items[w]),
                             missing |-> Len(missing[w])]]))

\* a variant of Canonicalize: the corpus is one file that all runs share
Canonicalize_shared_corpus(w) ==
    /\ variant = "apps"
    /\ pc[w] = "canonicalize"
    /\ corpus_jsonl' = [j \in DOMAIN request_json |-> _canonicalize(items[w])]
    /\ pc' = [pc EXCEPT ![w] = "upd_provenance"]
    /\ UNCHANGED <<variant, request_json, status_json, results_json,
                   corpus_prov_jsonl, queue, api_pc, item, localVars, histVars, toolVars>>

\* tasks.py line 94: write corpus.jsonl
Canonicalize(w) ==
    /\ variant = "apps"
    /\ pc[w] = "canonicalize"
    /\ corpus_jsonl' = (item[w] :> _canonicalize(items[w])) @@ corpus_jsonl
    /\ pc' = [pc EXCEPT ![w] = "upd_provenance"]
    /\ UNCHANGED <<variant, request_json, status_json, results_json,
                   corpus_prov_jsonl, queue, api_pc, item, localVars, histVars, toolVars>>

\* a variant of UpdProvenance: the status names the stage canonicalize again
UpdProvenance_mislabelled(w) ==
    /\ variant = "apps"
    /\ StatusStep(w, "upd_provenance", "provenance",
           upd(item[w], "running", "canonicalize", 55, EmptyDict))

\* tasks.py line 96
UpdProvenance(w) ==
    /\ variant = "apps"
    /\ StatusStep(w, "upd_provenance", "provenance",
           upd(item[w], "running", "provenance", 55, EmptyDict))

\* tasks.py line 97: read corpus.jsonl back, write corpus_prov.jsonl
Provenance(w) ==
    /\ variant = "apps"
    /\ pc[w] = "provenance"
    /\ item[w] \in DOMAIN corpus_jsonl
    /\ corpus_prov_jsonl' =
           (item[w] :> _provenance(corpus_jsonl[item[w]])) @@ corpus_prov_jsonl
    /\ pc' = [pc EXCEPT ![w] = "upd_analyze"]
    /\ UNCHANGED <<variant, request_json, status_json, results_json,
                   corpus_jsonl, queue, api_pc, item, localVars, histVars, toolVars>>

\* a variant of UpdAnalyze: the job is marked done before its results are
\* written
UpdAnalyze_done_early(w) ==
    /\ variant = "apps"
    /\ StatusStep(w, "upd_analyze", "results",
           upd(item[w], "done", "done", 100, EmptyDict))

\* tasks.py line 99
UpdAnalyze(w) ==
    /\ variant = "apps"
    /\ StatusStep(w, "upd_analyze", "results",
           upd(item[w], "running", "analyze", 80, EmptyDict))

\* a variant of make_results: the results object has no entry
make_results_empty(j, miss) == EmptyDict

\* tasks.py lines 100-101: the results object
make_results(j, miss) ==
    LET base == [claims |-> <<>>, fracture_score |-> 0, unity_bridges |-> <<>>,
                 run_folder |-> <<"runs", j>>]
    IN IF miss # <<>> THEN [notes |-> [missing_transcripts |-> miss]] @@ base
       ELSE base

\* tasks.py line 102: write results.json
WriteResults(w) ==
    /\ variant = "apps"
    /\ pc[w] = "results"
    /\ results_json' =
           (item[w] :> make_results(item[w], missing[w])) @@ results_json
    /\ pc' = [pc EXCEPT ![w] = "upd_done"]
    /\ UNCHANGED <<variant, request_json, status_json, corpus_jsonl,
                   corpus_prov_jsonl, queue, api_pc, item, localVars, histVars, toolVars>>

\* tasks.py line 104: status done, run_job returns
UpdDone(w) ==
    /\ variant = "apps"
    /\ pc[w] = "upd_done"
    /\ status_json' = upd(item[w], "done", "done", 100, EmptyDict)
    /\ Return(w)
    /\ UNCHANGED <<variant, request_json, results_json, corpus_jsonl,
                   corpus_prov_jsonl, queue, api_pc, enq, deq, arrivals, discovery, runs,
                   raised, resolved, fetch_raised, toolVars>>

\* ---------------------------------------------------------- run_job, nexus
\* veritas-nexus store.py update_status: read the status, patch it, write it
update_status(j, patch) ==
    (j :> (patch @@ read_status(j))) @@ status_json

\* veritas-nexus tasks.py lines 48-53: read the request, status
\* running/discover, vids are the ids of the request or none at all
NexusRunJobStart(w) ==
    /\ variant = "nexus"
    /\ pc[w] = "run_job"
    /\ item[w] \in DOMAIN request_json
    /\ status_json' = update_status(item[w],
           [state |-> "running", stage |-> "discover", progress |-> 5])
    /\ runs' = [runs EXCEPT ![item[w]] = @ + 1]
    /\ vids' = [vids EXCEPT ![w] = or_else(request_json[item[w]].video_ids, <<>>)]
    /\ idx' = [idx EXCEPT ![w] = 1]
    /\ resolved' = [resolved EXCEPT ![item[w]] =
                      Some(or_else(request_json[item[w]].video_ids, <<>>))]
    /\ pc' = [pc EXCEPT ![w] = "fetch"]
    /\ UNCHANGED <<variant, request_json, results_json, corpus_jsonl,
                   corpus_prov_jsonl, queue, api_pc, item, items, missing,
                   enq, deq, arrivals, discovery, raised, returned, fetch_raised,
                   toolVars>>

\* veritas-nexus tasks.py lines 54-59: one turn of the loop over vids
NexusFetchVid(w, vid, ans) ==
    /\ items' = [items EXCEPT ![w] =
                    @ \o nexus_segment_items(vid, nexus_transcript(ans))]
    /\ fetch_raised' = [fetch_raised EXCEPT ![item[w]] =
                           IF ans.raised THEN @ \cup {vid} ELSE @]
    /\ idx' = [idx EXCEPT ![w] = @ + 1]
    /\ UNCHANGED <<variant, storeVars, queue, api_pc, pc, item, vids, missing,
                   enq, deq, arrivals, discovery, runs, raised, returned, resolved,
                   toolVars>>

NexusFetch(w) ==
    /\ variant = "nexus"
    /\ pc[w] = "fetch"
    /\ idx[w] <= Len(vids[w])
    /\ \E ans \in FetchAnswers(vids[w][idx[w]]) :
           NexusFetchVid(w, vids[w][idx[w]], ans)

\* veritas-nexus tasks.py line 63
NexusUpdCanonicalize(w) ==
    /\ variant = "nexus"
    /\ idx[w] > Len(vids[w])
    /\ StatusStep(w, "fetch", "canonicalize",
           update_status(item[w], [state |-> "running",
                                   stage |-> "canonicalize", progress |-> 30]))

\* veritas-nexus tasks.py lines 64-65
NexusCanonicalize(w) ==
    /\ variant = "nexus"
    /\ pc[w] = "canonicalize"
    /\ corpus_jsonl' = (item[w] :> nexus_canonicalize(items[w])) @@ corpus_jsonl
    /\ pc' = [pc EXCEPT ![w] = "upd_provenance"]
    /\ UNCHANGED <<variant, request_json, status_json, results_json,
                   corpus_prov_jsonl, queue, api_pc, item, localVars, histVars, toolVars>>

\* veritas-nexus tasks.py line 67
NexusUpdProvenance(w) ==
    /\ variant = "nexus"
    /\ StatusStep(w, "upd_provenance", "provenance",
           update_status(item[w], [state |-> "running",
                                   stage |-> "provenance", progress |-> 50]))

\* veritas-nexus tasks.py _provenance, lines 27-45
RECURSIVE nexus_prov_loop(_)
nexus_prov_loop(layer) ==
    IF Len(layer) > 1
    THEN LET padded == IF Len(layer) % 2 = 1
                       THEN Append(layer, layer[Len(layer)]) ELSE layer
         IN nexus_prov_loop([k \in 1..(Len(padded) \div 2) |->
                sha256(padded[2 * k - 1] \o padded[2 * k])])
    ELSE layer[1]

nexus_provenance(lines) ==
    [k \in 1..Len(lines) |->
        LET hs == [n \in 1..Len(lines[k].sentences) |->
                      sha256(lines[k].sentences[n].text)]
            root == IF hs = <<>> THEN sha256(<<>>) ELSE nexus_prov_loop(hs)
        IN [prov |-> [sentence_hashes |-> hs, merkle_root |-> root]]
               @@ lines[k]]

\* veritas-nexus tasks.py lines 68-69
NexusProvenance(w) ==
    /\ variant = "nexus"
    /\ pc[w] = "provenance"
    /\ item[w] \in DOMAIN corpus_jsonl
    /\ corpus_prov_jsonl' =
           (item[w] :> nexus_provenance(corpus_jsonl[item[w]]))
               @@ corpus_prov_jsonl
    /\ pc' = [pc EXCEPT ![w] = "upd_analyze"]
    /\ UNCHANGED <<variant, request_json, status_json, results_json,
                   corpus_jsonl, queue, api_pc, item, localVars, histVars, toolVars>>

\* veritas-nexus tasks.py line 72
NexusUpdAnalyze(w) ==
    /\ variant = "nexus"
    /\ StatusStep(w, "upd_analyze", "results",
           update_status(item[w], [state |-> "running", stage |-> "analyze",
                                   progress |-> 80]))

\* veritas-nexus tasks.py lines 73-74 and store.py write_results
NexusWriteResults(w) ==
    /\ variant = "nexus"
    /\ pc[w] = "results"
    /\ results_json' =
           (item[w] :> [claims |-> <<>>, fracture_score |-> 0,
                        unity_bridges |-> <<>>,
                        run_folder |-> <<"runs", item[w]>>]) @@ results_json
    /\ pc' = [pc EXCEPT ![w] = "upd_done"]
    /\ UNCHANGED <<variant, request_json, status_json, corpus_jsonl,
                   corpus_prov_jsonl, queue, api_pc, item, localVars, histVars, toolVars>>

\* veritas-nexus tasks.py line 76: status done, run_job returns
NexusUpdDone(w) ==
    /\ variant = "nexus"
    /\ pc[w] = "upd_done"
    /\ status_json' = update_status(item[w],
           [state |-> "done", stage |-> "done", progress |-> 100])
    /\ Return(w)
    /\ UNCHANGED <<variant, request_json, results_json, corpus_jsonl,
                   corpus_prov_jsonl, queue, api_pc, enq, deq, arrivals, discovery, runs,
                   raised, resolved, fetch_raised, toolVars>>

\* -------------------------------------------------------- specifications
Api ==
    \/ \E j \in JobIds : \E body \in Requests(j) : CreateJob(j, body)
    \/ \E j \in JobIds : Lpush(j)
    \/ \E j \in JobIds : ApiFail(j)

WorkerLoop(w) ==
    \/ BrpopItem(w)
    \/ BrpopTimeout(w)
    \/ Raise(w)

AppsRunJob(w) ==
    \/ RunJobStart(w)
    \/ \E out \in YtDlpOutputs : DiscoverEmpty(w, out)
    \/ \E out \in YtDlpOutputs : DiscoverFound(w, out)
    \/ Fetch(w)
    \/ UpdCanonicalize(w)
    \/ Canonicalize(w)
    \/ UpdProvenance(w)
    \/ Provenance(w)
    \/ UpdAnalyze(w)
    \/ WriteResults(w)
    \/ UpdDone(w)

NexusRunJob(w) ==
    \/ NexusRunJobStart(w)
    \/ NexusFetch(w)
    \/ NexusUpdCanonicalize(w)
    \/ NexusCanonicalize(w)
    \/ NexusUpdProvenance(w)
    \/ NexusProvenance(w)
    \/ NexusUpdAnalyze(w)
    \/ NexusWriteResults(w)
    \/ NexusUpdDone(w)

\* the apps deployment: API, queue and workers of apps/veritas_*
Init == InitState /\ ToolIdle /\ variant = "apps"
Next == Api \/ \E w \in Workers : WorkerLoop(w) \/ AppsRunJob(w)
Spec == Init /\ [][Next]_vars

\* the veritas-nexus deployment
NexusInit == InitState /\ ToolIdle /\ variant = "nexus"
NexusNext == Api \/ \E w \in Workers : WorkerLoop(w) \/ NexusRunJob(w)
NexusSpec == NexusInit /\ [][NexusNext]_vars

\* one worker alone on the queue, in either deployment.  The worker is a
\* running process and each of its steps returns (brpop and yt-dlp have
\* timeouts), so its next step is eventually taken.
OneWorker == WorkerLoop(1) \/ AppsRunJob(1) \/ NexusRunJob(1)
OneInit == InitState /\ ToolIdle /\ variant \in {"apps", "nexus"}
OneNext == Api \/ OneWorker
OneSpec == OneInit /\ [][OneNext]_vars /\ WF_vars(OneWorker)

\* -------------------------------------------------- the provenance engine
\* the sentence texts and lists the engine is tried with
SentenceTexts == {<<"a">>, <<"b">>, <<"c">>}
SentenceLists == UNION {[1..n -> SentenceTexts] : n \in 0..MaxSentences}

\* the canonical record of a sentence list
record_of(sents) ==
    [doc_id |-> <<"d">>, url |-> <<"u">>,
     sentences |-> [k \in 1..Len(sents) |-> [text |-> sents[k]]]]

\* the provenance server's tool hash_sentences is called
HashSentences ==
    /\ srv_out = None
    /\ srv_out' = Some(hash_sentences(sentences))
    /\ UNCHANGED <<variant, storeVars, queue, api_pc, pc, item, localVars,
                   histVars, sentences, prov_out, nexus_prov_out, fileVars>>

\* _provenance of apps runs over a corpus of the one record
ProvenanceRecord ==
    /\ prov_out = None
    /\ prov_out' = Some(_provenance(<<record_of(sentences)>>)[1].prov)
    /\ UNCHANGED <<variant, storeVars, queue, api_pc, pc, item, localVars,
                   histVars, sentences, srv_out, nexus_prov_out, fileVars>>

\* _provenance of veritas-nexus runs over a corpus of the one record
NexusProvenanceRecord ==
    /\ nexus_prov_out = None
    /\ nexus_prov_out' = Some(nexus_provenance(<<record_of(sentences)>>)[1].prov)
    /\ UNCHANGED <<variant, storeVars, queue, api_pc, pc, item, localVars,
                   histVars, sentences, srv_out, prov_out, fileVars>>

MerkleInit ==
    /\ InitState
    /\ variant = "apps"
    /\ sentences \in SentenceLists
    /\ srv_out = None
    /\ prov_out = None
    /\ nexus_prov_out = None
    /\ FileIdle
MerkleNext == HashSentences \/ ProvenanceRecord \/ NexusProvenanceRecord
MerkleSpec == MerkleInit /\ [][MerkleNext]_vars

\* ------------------------------------------------- json and the corpus file
\* the characters json treats specially, and one character outside ASCII
DQ == "\""
BS == "\\"
NL == "\n"
EAcute == "é"

Digits == <<"0", "1", "2", "3", "4", "5", "6", "7", "8", "9">>

\* the decimal form of a natural number, as str() and json.dumps write it
RECURSIVE str_int(_)
str_int(n) ==
    IF n < 10 THEN <<Digits[n + 1]>>
    ELSE str_int(n \div 10) \o <<Digits[(n % 10) + 1]>>

\* tasks.py line 91: f"{vid}-{int(seg['start']*1000)}"
str_id(id) == id[1] \o <<"-">> \o str_int(id[2])

\* tasks.py line 84: f"https://www.youtube.com/watch?v={vid}"
UrlPrefix ==
    <<"h", "t", "t", "p", "s", ":", "/", "/", "w", "w", "w", ".", "y", "o",
      "u", "t", "u", "b", "e", ".", "c", "o", "m", "/", "w", "a", "t", "c",
      "h", "?", "v", "=">>
str_url(url) == UrlPrefix \o url[2]

\* the keys of the canonical record
K_doc_id == <<"d", "o", "c", "_", "i", "d">>
K_url == <<"u", "r", "l">>
K_sentences == <<"s", "e", "n", "t", "e", "n", "c", "e", "s">>
K_text == <<"t", "e", "x", "t">>
K_meta == <<"m", "e", "t", "a">>
K_video_id == <<"v", "i", "d", "e", "o", "_", "i", "d">>
K_timestamp_ms ==
    <<"t", "i", "m", "e", "s", "t", "a", "m", "p", "_", "m", "s">>
K_created_at == <<"c", "r", "e", "a", "t", "e", "d", "_", "a", "t">>

\* json.dumps of a str (ensure_ascii is on): the escapes inside the quotes
escape_char(c) ==
    IF c = DQ THEN <<BS, DQ>>
    ELSE IF c = BS THEN <<BS, BS>>
    ELSE IF c = NL THEN <<BS, "n">>
    ELSE IF c = EAcute THEN <<BS, "u", "0", "0", "e", "9">>
    ELSE <<c>>

RECURSIVE escape(_)
escape(t) == IF t = <<>> THEN <<>> ELSE escape_char(Head(t)) \o escape(Tail(t))

json_str(t) == <<DQ>> \o escape(t) \o <<DQ>>

\* a key of an object with the separator ": " behind it
json_key(k) == json_str(k) \o <<":", Space>>

\* json.dumps of a list of already written values, separator ", "
RECURSIVE json_join(_)
json_join(vs) ==
    IF vs = <<>> THEN <<>>
    ELSE IF Len(vs) = 1 THEN vs[1]
    ELSE vs[1] \o <<",", Space>> \o json_join(Tail(vs))

json_object(members) == <<"{">> \o json_join(members) \o <<"}">>
json_array(elems) == <<"[">> \o json_join(elems) \o <<"]">>

json_sentences(sents) ==
    json_array([k \in 1..Len(sents) |->
        json_object(<< json_key(K_text) \o json_str(sents[k].text) >>)])

\* tasks.py line 44: json.dumps(rec) of a record of _canonicalize
dumps_canonical(rec) ==
    json_object(<<
        json_key(K_doc_id) \o json_str(str_id(rec.doc_id)),
        json_key(K_url) \o json_str(str_url(rec.url)),
        json_key(K_sentences) \o json_sentences(rec.sentences),
        json_key(K_meta) \o json_object(<<
            json_key(K_video_id) \o json_str(rec.meta.video_id),
            json_key(K_timestamp_ms) \o str_int(rec.meta.timestamp_ms) >>) >>)

\* veritas-nexus tasks.py line 25: json.dumps(line)
nexus_dumps_canonical(rec) ==
    json_object(<<
        json_key(K_doc_id) \o json_str(str_id(rec.doc_id)),
        json_key(K_url) \o json_str(str_url(rec.url)),
        json_key(K_created_at) \o <<"n", "u", "l", "l">>,
        json_key(K_sentences) \o json_sentences(rec.sentences) >>)

\* the characters of a list of texts, one after the other
RECURSIVE concat(_)
concat(ts) == IF ts = <<>> THEN <<>> ELSE Head(ts) \o concat(Tail(ts))

\* a variant of write_jsonl: the lines are written without a line end
write_jsonl_unterminated(lines) == concat(lines)

\* tasks.py lines 36-44: the file is opened for writing and each record is
\* written as one line, f.write(json.dumps(rec)+"\n")
write_jsonl(lines) == concat([k \in 1..Len(lines) |-> lines[k] \o <<NL>>])

\* the first position of s that holds a character of cs
first_of(s, cs) ==
    CHOOSE k \in 1..Len(s) : s[k] \in cs /\ \A m \in 1..(k - 1) : s[m] \notin cs
drop(s, n) == SubSeq(s, n + 1, Len(s))

\* "for line in open(path)": the file cut behind each line end
next_line(s) ==
    IF \E k \in 1..Len(s) : s[k] = NL THEN first_of(s, {NL}) ELSE Len(s)

RECURSIVE read_lines(_)
read_lines(s) ==
    IF s = <<>> THEN <<>>
    ELSE <<SubSeq(s, 1, next_line(s))>> \o read_lines(drop(s, next_line(s)))

\* json.loads, the scanner.  White space between the tokens is skipped.
RECURSIVE skip_ws(_)
skip_ws(s) ==
    IF s # <<>> /\ Head(s) \in {Space, NL} THEN skip_ws(Tail(s)) ELSE s

\* the characters of a string literal behind its opening quote, up to the
\* closing quote, escapes undone
unescape(e) == IF e = "n" THEN NL ELSE e
unicode(hex) == IF hex = <<"0", "0", "e", "9">> THEN EAcute ELSE "?"

RECURSIVE scan_string(_)
scan_string(s) ==
    LET stop == first_of(s, {DQ, BS})
        plain == SubSeq(s, 1, stop - 1)
    IN IF s[stop] = DQ THEN [val |-> plain, rest |-> drop(s, stop)]
       ELSE IF s[stop + 1] = "u"
       THEN LET r == scan_string(drop(s, stop + 5))
            IN [val |-> plain \o <<unicode(SubSeq(s, stop + 2, stop + 5))>>
                            \o r.val,
                rest |-> r.rest]
       ELSE LET r == scan_string(drop(s, stop + 1))
            IN [val |-> plain \o <<unescape(s[stop + 1])>> \o r.val,
                rest |-> r.rest]

IsDigit(c) == \E i \in 1..10 : Digits[i] = c
DigitValue(c) == (CHOOSE i \in 1..10 : Digits[i] = c) - 1

RECURSIVE scan_int(_, _)
scan_int(s, acc) ==
    IF s # <<>> /\ IsDigit(Head(s))
    THEN scan_int(Tail(s), 10 * acc + DigitValue(Head(s)))
    ELSE [n |-> acc, rest |-> s]

\* json.loads, the parser: a value is [t, s, n, xs] with t its type, s the
\* text of a str, n the number of an int, xs the elements of a list or the
\* members [k, v] of a dict; rest is the text behind the value
Value(t, s, n, xs) == [t |-> t, s |-> s, n |-> n, xs |-> xs]

RECURSIVE parse_value(_)
RECURSIVE parse_elems(_)
RECURSIVE parse_members(_)
parse_value(text) ==
    LET s == skip_ws(text)
        inner == skip_ws(Tail(s))
    IN IF Head(s) = "["
       THEN IF Head(inner) = "]"
            THEN [v |-> Value("list", <<>>, 0, <<>>), rest |-> Tail(inner)]
            ELSE LET r == parse_elems(inner)
                 IN [v |-> Value("list", <<>>, 0, r.xs), rest |-> r.rest]
       ELSE IF Head(s) = "{"
       THEN IF Head(inner) = "}"
            THEN [v |-> Value("dict", <<>>, 0, <<>>), rest |-> Tail(inner)]
            ELSE LET r == parse_members(inner)
                 IN [v |-> Value("dict", <<>>, 0, r.xs), rest |-> r.rest]
       ELSE IF Head(s) = DQ
       THEN LET r == scan_string(Tail(s))
            IN [v |-> Value("str", r.val, 0, <<>>), rest |-> r.rest]
       ELSE IF Head(s) = "n"
       THEN [v |-> Value("null", <<>>, 0, <<>>), rest |-> drop(s, 4)]
       ELSE LET r == scan_int(s, 0)
            IN [v |-> Value("int", <<>>, r.n, <<>>), rest |-> r.rest]

parse_elems(text) ==
    LET r == parse_value(text)
        after == skip_ws(r.rest)
    IN IF Head(after) = ","
       THEN LET m == parse_elems(Tail(after))
            IN [xs |-> <<r.v>> \o m.xs, rest |-> m.rest]
       ELSE [xs |-> <<r.v>>, rest |-> Tail(after)]

parse_members(text) ==
    LET key == scan_string(Tail(skip_ws(text)))
        r == parse_value(Tail(skip_ws(key.rest)))
        member == [k |-> key.val, v |-> r.v]
        after == skip_ws(r.rest)
    IN IF Head(after) = ","
       THEN LET m == parse_members(Tail(after))
            IN [xs |-> <<member>> \o m.xs, rest |-> m.rest]
       ELSE [xs |-> <<member>>, rest |-> Tail(after)]

\* json.loads(line): the first value of the text
loads(line) == parse_value(line).v

\* d[key] of a parsed dict: the last member of that key
get(d, key) ==
    d.xs[CHOOSE i \in 1..Len(d.xs) :
            /\ d.xs[i].k = key
            /\ \A k \in 1..Len(d.xs) : d.xs[k].k = key => k <= i].v

\* the sentences of a parsed record
sentences_of(d) ==
    [k \in 1..Len(get(d, K_sentences).xs) |->
        [text |-> get(get(d, K_sentences).xs[k], K_text).s]]

\* the dict json.loads gives for a line of corpus.jsonl, as a record
record_of_json(d) ==
    [doc_id |-> get(d, K_doc_id).s, url |-> get(d, K_url).s,
     sentences |-> sentences_of(d),
     meta |-> [video_id |-> get(get(d, K_meta), K_video_id).s,
               timestamp_ms |-> get(get(d, K_meta), K_timestamp_ms).n]]

nexus_record_of_json(d) ==
    [doc_id |-> get(d, K_doc_id).s, url |-> get(d, K_url).s,
     created_at |-> get(d, K_created_at).t,
     sentences |-> sentences_of(d)]

\* tasks.py lines 52-53: the records of corpus.jsonl, line by line
read_corpus(file) ==
    [k \in 1..Len(read_lines(file)) |->
        IF variant = "apps" THEN record_of_json(loads(read_lines(file)[k]))
        ELSE nexus_record_of_json(loads(read_lines(file)[k]))]

\* ------------------------------------------ the corpus and provenance files
MaxFetched == 2
MaxProvRuns == 2

\* the transcripts the file tools are tried with: a blank and a plain
\* segment; a quote; a backslash before an n; a line end inside the text and
\* a character outside ASCII; no segment at all
FileTranscripts ==
    Transcripts \cup
    { << [text |-> <<DQ, "a", DQ>>, start |-> 0] >>,
      << [text |-> <<BS, "n">>, start |-> 12] >>,
      << [text |-> <<"a", NL, EAcute>>, start |-> 0],
         [text |-> <<"{", ",", ":">>, start |-> 1] >>,
      <<>> }
FetchedLists ==
    UNION {[1..n -> [video_id : {V1, V2}, tr : FileTranscripts]] :
              n \in 0..MaxFetched}

\* tasks.py lines 83-91 (veritas-nexus lines 54-59): the items of the
\* transcripts that were fetched
RECURSIVE loop_items(_)
loop_items(fs) ==
    IF fs = <<>> THEN <<>>
    ELSE (IF variant = "apps"
          THEN segment_items(Head(fs).video_id, Head(fs).tr)
          ELSE nexus_segment_items(Head(fs).video_id, Head(fs).tr))
         \o loop_items(Tail(fs))

\* _canonicalize with its file: the characters of corpus.jsonl
canonicalize_file(its) ==
    IF variant = "apps"
    THEN write_jsonl([k \in 1..Len(its) |->
                         dumps_canonical(_canonicalize(its)[k])])
    ELSE write_jsonl([k \in 1..Len(its) |->
                         nexus_dumps_canonical(nexus_canonicalize(its)[k])])

\* tasks.py line 94: corpus.jsonl is written
WriteCorpus ==
    /\ corpus_file = None
    /\ corpus_file' = Some(canonicalize_file(loop_items(fetched)))
    /\ UNCHANGED <<variant, storeVars, queue, api_pc, pc, item, localVars,
                   histVars, sentences, srv_out, prov_out, nexus_prov_out,
                   fetched, reread, prov_file, prov_runs>>

\* the corpus is read back
ReadCorpus ==
    /\ corpus_file # None
    /\ reread = None
    /\ reread' = Some(read_corpus(corpus_file[1]))
    /\ UNCHANGED <<variant, storeVars, queue, api_pc, pc, item, localVars,
                   histVars, sentences, srv_out, prov_out, nexus_prov_out,
                   fetched, corpus_file, prov_file, prov_runs>>

\* a variant of provenance_file: the output file is opened for appending
provenance_file_appended(file) ==
    (IF prov_file = None THEN <<>> ELSE prov_file[1])
        \o (IF variant = "apps" THEN _provenance(read_corpus(file))
            ELSE nexus_provenance(read_corpus(file)))

\* tasks.py lines 47-65: _provenance reads in_path and writes out_path anew
provenance_file(file) ==
    IF variant = "apps" THEN _provenance(read_corpus(file))
    ELSE nexus_provenance(read_corpus(file))

\* _provenance is run over the corpus, a first time or again
RunProvenance ==
    /\ corpus_file # None
    /\ prov_runs < MaxProvRuns
    /\ prov_file' = Some(provenance_file(corpus_file[1]))
    /\ prov_runs' = prov_runs + 1
    /\ UNCHANGED <<variant, storeVars, queue, api_pc, pc, item, localVars,
                   histVars, sentences, srv_out, prov_out, nexus_prov_out,
                   fetched, corpus_file, reread>>

FileInit ==
    /\ InitState
    /\ variant \in {"apps", "nexus"}
    /\ sentences = <<>>
    /\ srv_out = None
    /\ prov_out = None
    /\ nexus_prov_out = None
    /\ fetched \in FetchedLists
    /\ corpus_file = None
    /\ reread = None
    /\ prov_file = None
    /\ prov_runs = 0
FileNext == WriteCorpus \/ ReadCorpus \/ RunProvenance
FileSpec == FileInit /\ [][FileNext]_vars

\* ------------------------------------------------------------------ claims
StatusOf(j) == status_json[j]
HasStatus(j) == j \in DOMAIN status_json
HasResults(j) == j \in DOMAIN results_json

\* str(e) of the exception that leaves run_job
ExceptionMessage == "store failure"

\* C1: whenever run_job raised for a dequeued job, the job's persisted
\* status ends with state error and the exception's message; the job is not
\* left in state running.
C1_FailureBecomesErrorState ==
    \A j \in JobIds :
        raised[j] =>
            /\ HasStatus(j)
            /\ StatusOf(j).state = "error"
            /\ "message" \in DOMAIN StatusOf(j)
            /\ StatusOf(j).message = ExceptionMessage

\* C2: in every reachable state GET /jobs/{id}/results answers 404 whenever
\* the job's persisted state is not done.
C2_ResultsOnlyWhenDone ==
    \A j \in JobIds :
        (~HasStatus(j) \/ StatusOf(j).state # "done") => results(j) = 404

\* C3: from creation on, every write of a job's status leaves progress where
\* it was or raises it, the empty-discovery error included, and progress is
\* always within [0, 1] (0 to 100 hundredths).
ProgressInRange ==
    \A j \in DOMAIN status_json :
        StatusOf(j).progress >= 0 /\ StatusOf(j).progress <= 100
ProgressNeverDecreases ==
    \A j \in DOMAIN status_json :
        /\ j \in DOMAIN status_json'
        /\ StatusOf(j).progress <= status_json'[j].progress
C3_MonotonicProgress == []ProgressInRange /\ [][ProgressNeverDecreases]_vars

\* a job took the empty-discovery error path and its progress went up on it
C3_Witness ==
    \E j \in JobIds :
        /\ HasStatus(j)
        /\ StatusOf(j).state = "error"
        /\ StatusOf(j).progress > 5
        /\ returned[j]

\* C4: a fetch that fails is never fatal to the job: the step leaves the
\* status alone and the loop goes on with the next id; a job with ids to
\* process is never put in state error, and when run_job returns its state is
\* done, whichever of its fetches failed.
Resolved(j) == IF resolved[j] = None THEN <<>> ELSE resolved[j][1]
FetchFailureGoesOn ==
    \A w \in Workers :
        (item[w] # 0 /\ fetch_raised'[item[w]] # fetch_raised[item[w]]) =>
            /\ status_json' = status_json
            /\ pc'[w] = "fetch"
            /\ idx'[w] = idx[w] + 1
            /\ item'[w] = item[w]
JobWithIdsEndsDone ==
    \A j \in JobIds :
        Resolved(j) # <<>> =>
            /\ HasStatus(j) /\ StatusOf(j).state # "error"
            /\ returned[j] => StatusOf(j).state = "done"
C4_FetchFailureNotFatal == []JobWithIdsEndsDone /\ [][FetchFailureGoesOn]_vars

\* run_job returned for a job of two ids whose fetches all failed
C4_Witness ==
    \E j \in JobIds :
        /\ returned[j]
        /\ Len(Resolved(j)) = 2
        /\ fetch_raised[j] = {Resolved(j)[1], Resolved(j)[2]}
        /\ StatusOf(j).state = "done"

\* C5: at completion the ids under results.notes.missing_transcripts are
\* exactly the ids whose fetch failed, whatever the error, and the note is
\* there if and only if a fetch failed.
ListedMissing(j) ==
    IF "notes" \in DOMAIN results_json[j]
    THEN {results_json[j].notes.missing_transcripts[k].video_id :
             k \in 1..Len(results_json[j].notes.missing_transcripts)}
    ELSE {}
C5_MissingListsExactlyTheFailed ==
    \A j \in JobIds :
        (HasStatus(j) /\ StatusOf(j).state = "done") =>
            /\ HasResults(j)
            /\ ListedMissing(j) = fetch_raised[j]
            /\ ("notes" \in DOMAIN results_json[j]) <=> (fetch_raised[j] # {})

\* C6: a job whose request has no video ids and whose target resolves to no
\* item ends in state error, stage discover, message "No videos found"; it
\* never reaches canonicalize, provenance or analyze and writes no results.
NoIdsRequested(j) ==
    /\ j \in DOMAIN request_json
    /\ request_json[j].video_ids \in {None, Some(<<>>)}
C6_EmptyDiscoveryIsError ==
    \A j \in JobIds :
        (NoIdsRequested(j) /\ resolved[j] = Some(<<>>)) =>
            /\ StatusOf(j).stage \notin {"canonicalize", "provenance",
                                         "analyze", "done"}
            /\ ~HasResults(j)
            /\ j \notin DOMAIN corpus_jsonl
            /\ returned[j] =>
                  /\ StatusOf(j).state = "error"
                  /\ StatusOf(j).stage = "discover"
                  /\ "message" \in DOMAIN StatusOf(j)
                  /\ StatusOf(j).message = "No videos found"

\* C7: every job id is put on the queue once, by POST /jobs, is given by
\* brpop to at most one worker, and is never queued or run again after it
\* failed or ended; no two workers execute run_job for the same id.
InQueue(j) == \E k \in 1..Len(queue) : queue[k] = j
C7_AtMostOnceExecution ==
    \A j \in JobIds :
        /\ enq[j] <= 1
        /\ api_pc[j] = "returned" => enq[j] = 1
        /\ deq[j] <= enq[j]
        /\ runs[j] <= deq[j]
        /\ Cardinality({w \in Workers : item[w] = j}) <= 1
        /\ Cardinality({k \in 1..Len(queue) : queue[k] = j}) <= 1
        /\ (deq[j] > 0 \/ raised[j] \/ returned[j]) => ~InQueue(j)

\* two workers are inside run_job at the same time while a job has failed
C7_Witness ==
    /\ \E v, w \in Workers : v # w /\ pc[v] \in RunPcs /\ pc[w] \in RunPcs
    /\ \E j \in JobIds : enq[j] = 1 /\ deq[j] = 1 /\ runs[j] = 1

\* C8: when run_job fails with an exception the worker loop is still running
\* and is back at brpop; a job that waits in the queue while or after another
\* job failed is eventually taken and run by that worker.
FailureReturnsToBrpop ==
    \A j \in JobIds : (~raised[j] /\ raised'[j]) => pc'[1] = "brpop"
C8_WorkerSurvivesFailure ==
    /\ [][FailureReturnsToBrpop]_vars
    /\ \A j \in JobIds :
          (InQueue(j) /\ \E k \in JobIds : raised[k]) ~> (runs[j] > 0)

\* a job failed and a job that was queued behind it was run to its end
C8_Witness ==
    \E j, k \in JobIds : j # k /\ raised[k] /\ returned[j] /\ pc[1] = "brpop"

\* C9: for a list of one sentence with digest d the root is h(d || d): the
\* single digest goes through the pairing rule, padded by duplication.
DigestsOf(sents) == [k \in 1..Len(sents) |-> sha256(sents[k])]
Roots ==
    {o[1].merkle_root : o \in {srv_out, prov_out, nexus_prov_out} \ {None}}
C9_SingletonIsPaired ==
    Len(sentences) = 1 =>
        \A root \in Roots :
            root = sha256(DigestsOf(sentences)[1] \o DigestsOf(sentences)[1])

\* C10: for a digest list of length two or more the root is the reference
\* fold: at each level an odd level's last digest is taken twice, each
\* adjacent pair (x, y) becomes h(x || y), until one digest is left.
RefLevel(level) ==
    [k \in 1..((Len(level) + 1) \div 2) |->
        sha256(level[2 * k - 1]
               \o (IF 2 * k <= Len(level) THEN level[2 * k]
                   ELSE level[2 * k - 1]))]
RECURSIVE RefFold(_)
RefFold(level) == IF Len(level) = 1 THEN level[1] ELSE RefFold(RefLevel(level))
C10_GeneralCaseIsReferenceFold ==
    /\ Len(sentences) >= 2 =>
          \A root \in Roots : root = RefFold(DigestsOf(sentences))
    /\ sentences = << <<"a">>, <<"b">> >> =>
          \A root \in Roots :
              root = <<"<", "<", "a", ">", "<", "b", ">", ">">>
    /\ sentences = << <<"a">>, <<"b">>, <<"c">> >> =>
          \A root \in Roots :
              root = <<"<", "<", "<", "a", ">", "<", "b", ">", ">",
                            "<", "<", "c", ">", "<", "c", ">", ">", ">">>

\* the three implementations have answered for a list of three sentences
C10_Witness ==
    /\ Len(sentences) = 3
    /\ srv_out # None /\ prov_out # None /\ nexus_prov_out # None

\* C11: for a record with an empty sentence list the list of sentence hashes
\* is empty and the root is h(""), the digest of the empty string; the
\* engine answers and raises no error.
C11_EmptyListHasSentinelRoot ==
    sentences = <<>> =>
        /\ srv_out # None =>
              /\ srv_out[1].hashes = <<>>
              /\ srv_out[1].merkle_root = <<"<", ">">>
        /\ \A o \in {prov_out, nexus_prov_out} \ {None} :
              /\ o[1].sentence_hashes = <<>>
              /\ o[1].merkle_root = <<"<", ">">>

\* the three implementations have answered for the empty list
C11_Witness ==
    /\ sentences = <<>>
    /\ srv_out # None /\ prov_out # None /\ nexus_prov_out # None

\* C12: for every list of two or more pairwise distinct sentences some
\* permutation of the list has a root that differs from the root of the list
\* as given (h is injective here).
PermutedBy(s, p) == [k \in 1..Len(s) |-> s[p[k]]]
PairwiseDistinct(s) ==
    \A i, k \in 1..Len(s) : i # k => s[i] # s[k]
C12_RootIsOrderSensitive ==
    (Len(sentences) >= 2 /\ PairwiseDistinct(sentences)) =>
        /\ srv_out # None =>
              \E p \in Permutations(1..Len(sentences)) :
                  hash_sentences(PermutedBy(sentences, p)).merkle_root
                      # srv_out[1].merkle_root
        /\ prov_out # None =>
              \E p \in Permutations(1..Len(sentences)) :
                  prov_record(record_of(PermutedBy(sentences, p))).merkle_root
                      # prov_out[1].merkle_root

\* the server and _provenance have answered for three distinct sentences
C12_Witness ==
    /\ Len(sentences) = 3 /\ PairwiseDistinct(sentences)
    /\ srv_out # None /\ prov_out # None

\* C16: the results of a job are written at most once, only as part of the
\* transition to done (the step that writes them leaves the job in state
\* done), and are never modified once written.
ResultsChange(j) ==
    /\ j \in DOMAIN results_json'
    /\ j \notin DOMAIN results_json \/ results_json'[j] # results_json[j]
ResultsWrittenWithDone ==
    \A j \in JobIds :
        ResultsChange(j) =>
            /\ ~HasResults(j)
            /\ j \in DOMAIN status_json'
            /\ status_json'[j].state = "done"
C16_ResultsWrittenOnceWithDone == [][ResultsWrittenWithDone]_vars

\* C17: once the persisted status of a job has state done or error, no step
\* of a worker or of the API changes the job's status, results, corpus or
\* provenance file.
Terminal(j) == HasStatus(j) /\ StatusOf(j).state \in {"done", "error"}
File(f, j) == IF j \in DOMAIN f THEN <<f[j]>> ELSE <<>>
FilesOf(j) ==
    <<File(status_json, j), File(results_json, j), File(corpus_jsonl, j),
      File(corpus_prov_jsonl, j)>>
TerminalStays == \A j \in JobIds : Terminal(j) => FilesOf(j)' = FilesOf(j)
C17_TerminalStatesAbsorbing == [][TerminalStays]_vars

\* a job ended done, another ended in error, and both run_job calls returned
C17_Witness ==
    \E j, k \in JobIds :
        /\ Terminal(j) /\ StatusOf(j).state = "done" /\ returned[j]
        /\ Terminal(k) /\ StatusOf(k).state = "error" /\ returned[k]

\* C18: once the fetch stage is over the status holds metrics.videos,
\* metrics.segments and metrics.missing, and every later status of the job
\* (provenance, analyze, done) still holds them.
C18_MetricsAccumulate ==
    \A j \in JobIds :
        (HasStatus(j) /\ StatusOf(j).stage \in {"canonicalize", "provenance",
                                                "analyze", "done"}) =>
            /\ "metrics" \in DOMAIN StatusOf(j)
            /\ {"videos", "segments", "missing"}
                   \subseteq DOMAIN StatusOf(j).metrics

\* C19: the queue is first in, first out: brpop gives the id that was pushed
\* earliest among those that wait, and with a single worker run_job starts
\* for the id just given, so jobs start in the order of their lpush.
FifoDequeue ==
    \A w \in Workers :
        (pc[w] = "brpop" /\ pc'[w] = "run_job") =>
            /\ arrivals # <<>>
            /\ item'[w] = Head(arrivals)
            /\ arrivals' = Tail(arrivals)
StartFollowsDequeue ==
    \A j \in JobIds : runs'[j] > runs[j] => (pc[1] = "run_job" /\ item[1] = j)
C19_QueueIsFifo == [][FifoDequeue /\ StartFollowsDequeue]_vars

\* the worker was given job 2 while job 1, created first and pushed second,
\* waits behind it
C19_Witness ==
    /\ pc[1] = "run_job" /\ item[1] = 2
    /\ queue = <<1>> /\ arrivals = <<1>>
    /\ deq[2] = 1 /\ runs[2] = 0

\* C20: the id list of discovery follows the order preference of the request
\* (upload date ascending for oldest, descending for newest), entries whose
\* upload date is equal or absent are ordered by their id, and at most
\* max_items ids are returned.
IdAlphabet == <<"1", "2", "3", "v">>
CharRank(c) == CHOOSE i \in 1..Len(IdAlphabet) : IdAlphabet[i] = c
RECURSIVE TextLeq(_, _)
TextLeq(a, b) ==
    IF a = <<>> THEN TRUE
    ELSE IF b = <<>> THEN FALSE
    ELSE IF Head(a) # Head(b) THEN CharRank(Head(a)) < CharRank(Head(b))
    ELSE TextLeq(Tail(a), Tail(b))
ComesBefore(a, b, order) ==
    IF a.upload_date # b.upload_date
    THEN IF order = "oldest" THEN a.upload_date < b.upload_date
         ELSE a.upload_date > b.upload_date
    ELSE TextLeq(strip(a.id), strip(b.id))
ReferenceIds(out, order, limit) ==
    IF ~out.ok THEN <<>>
    ELSE LET named == SelectSeq(out.entries, LAMBDA e : strip(e.id) # <<>>)
             p == CHOOSE q \in Permutations(1..Len(named)) :
                      \A i, k \in 1..Len(named) :
                          i < k => ComesBefore(named[q[i]], named[q[k]], order)
         IN [k \in 1..(IF limit < Len(named) THEN limit ELSE Len(named)) |->
                strip(named[p[k]].id)]
C20_DiscoveryOrdering ==
    \A j \in JobIds :
        (NoIdsRequested(j) /\ resolved[j] # None) =>
            \E out \in YtDlpOutputs :
                Resolved(j) = ReferenceIds(out, request_json[j].order,
                                           request_json[j].max_items)

\* C13: a second run of _provenance over an unchanged corpus file leaves the
\* provenance file as the first run wrote it (same records, same order, same
\* hashes and roots) and leaves the corpus file unchanged.
SecondRunChangesNothing ==
    (prov_runs >= 1 /\ prov_runs' > prov_runs) =>
        /\ prov_file' = prov_file
        /\ corpus_file' = corpus_file
C14_CanonicalizeRoundTrip ==
    reread # None =>
        LET its == loop_items(fetched)
        IN /\ Len(reread[1]) = Len(its)
           /\ \A k \in 1..Len(its) :
                 /\ reread[1][k].doc_id = str_id(its[k].id)
                 /\ reread[1][k].url = str_url(its[k].url)
                 /\ reread[1][k].sentences = << [text |-> its[k].text] >>
                 /\ "meta" \in DOMAIN its[k] =>
                       reread[1][k].meta = its[k].meta

\* a corpus of two or more items, one with a quote and one with a line end
\* in its text, was written and read back
C14_Witness ==
    /\ reread # None
    /\ Len(reread[1]) >= 2
    /\ \E k \in 1..Len(reread[1]) :
          \E n \in 1..Len(reread[1][k].sentences[1].text) :
              reread[1][k].sentences[1].text[n] = DQ
    /\ \E k \in 1..Len(reread[1]) :
          \E n \in 1..Len(reread[1][k].sentences[1].text) :
              reread[1][k].sentences[1].text[n] = NL

\* C15: the corpus of a job holds exactly one record per fetched item, in
\* the order of the fetch, and an item whose text is empty still has its
\* record, with an empty sentence list.
RECURSIVE FetchedSegments(_)
FetchedSegments(fs) ==
    IF fs = <<>> THEN <<>>
    ELSE [k \in 1..Len(Head(fs).tr) |->
             [id |-> <<Head(fs).video_id, Head(fs).tr[k].start * 1000>>,
              text |-> strip(Head(fs).tr[k].text)]]
         \o FetchedSegments(Tail(fs))
C15_NoItemDropped ==
    reread # None =>
        LET segs == FetchedSegments(fetched)
        IN /\ Len(reread[1]) = Len(segs)
           /\ \A k \in 1..Len(segs) :
                 /\ reread[1][k].doc_id = str_id(segs[k].id)
                 /\ segs[k].text = <<>> => reread[1][k].sentences = <<>>

\* C21: on empty discovery the step to state error leaves progress where
\* the step into discover put it: the error status of stage discover has
\* progress 0.05 (5 hundredths).
C21_EmptyDiscoveryKeepsProgress ==
    \A j \in JobIds :
        (HasStatus(j) /\ StatusOf(j).state = "error"
                      /\ StatusOf(j).stage = "discover") =>
            StatusOf(j).progress = 5

\* C22: with one worker whose steps are taken fairly, and the store calls
\* of the job's run returning rather than raising, every job that POST /jobs
\* has queued is eventually given to the worker and eventually has state
\* done or error, whatever the connector answers (a transcript, nothing, or
\* a failure for an item).
Submitted(j) == api_pc[j] = "returned"
C22_SubmittedJobsEnd ==
    \A j \in JobIds :
        /\ Submitted(j) ~> (deq[j] > 0)
        /\ Submitted(j) ~> ((deq[j] > 0 /\ Terminal(j)) \/ raised[j])

\* two submitted jobs were dequeued and ended with no store failure, one of
\* them after a fetch that failed
C22_Witness ==
    \E j, k \in JobIds :
        /\ j # k /\ Submitted(j) /\ Submitted(k)
        /\ deq[j] = 1 /\ deq[k] = 1 /\ ~raised[j] /\ ~raised[k]
        /\ Terminal(j) /\ Terminal(k)
        /\ fetch_raised[j] # {}

\* C23: a job writes only under its own directory: a step changes the
\* request, status, results, corpus or provenance file of one job at most,
\* and that job is the one POST /jobs is creating or the one the stepping
\* worker runs; and the artifacts a job has when its state becomes done are
\* those of a run of that job alone on the same request and connector
\* answers.
AllFilesOf(j) == <<File(request_json, j), FilesOf(j)>>
StepOf(j) ==
    \/ api_pc[j] = "unused" /\ api_pc'[j] = "lpush"
    \/ \E w \in Workers :
          item[w] = j /\ pc[w] \in RunPcs /\ pc'[w] # pc[w]
WritesOnlyOwnFiles ==
    storeVars' # storeVars =>
        \E j \in JobIds :
            /\ StepOf(j)
            /\ \A k \in JobIds \ {j} : AllFilesOf(k)' = AllFilesOf(k)
\* the run of job j alone: its ids, and for each id the answer its fetch got
SoloAnswer(j, vid) ==
    CHOOSE a \in FetchAnswers(vid) : a.raised <=> (vid \in fetch_raised[j])
RECURSIVE SoloItems(_, _)
SoloItems(j, vs) ==
    IF vs = <<>> THEN <<>>
    ELSE LET r == _transcript(SoloAnswer(j, Head(vs)))
         IN (IF truthy_err(r) THEN <<>> ELSE segment_items(Head(vs), r.tr))
                \o SoloItems(j, Tail(vs))
RECURSIVE SoloMissing(_, _)
SoloMissing(j, vs) ==
    IF vs = <<>> THEN <<>>
    ELSE LET r == _transcript(SoloAnswer(j, Head(vs)))
         IN (IF truthy_err(r)
             THEN << [video_id |-> Head(vs), error |-> r.err] >> ELSE <<>>)
                \o SoloMissing(j, Tail(vs))
EndsDone(j) ==
    /\ HasStatus(j) /\ StatusOf(j).state # "done"
    /\ status_json'[j].state = "done"
ArtifactsAsIfAlone ==
    \A j \in JobIds :
        EndsDone(j) =>
            /\ File(corpus_jsonl, j) =
                  << _canonicalize(SoloItems(j, Resolved(j))) >>
            /\ File(corpus_prov_jsonl, j) =
                  << _provenance(_canonicalize(SoloItems(j, Resolved(j)))) >>
            /\ File(results_json, j) =
                  << make_results(j, SoloMissing(j, Resolved(j))) >>
C23_JobIsolation == [][WritesOnlyOwnFiles /\ ArtifactsAsIfAlone]_vars

\* two workers run two jobs at the same time and each has written all the
\* artifacts of its job
C23_Witness ==
    \E v, w \in Workers :
        /\ v # w /\ item[v] # item[w]
        /\ pc[v] = "upd_done" /\ pc[w] = "upd_done"
        /\ HasResults(item[v]) /\ HasResults(item[w])

\* C24: for every list of sentence texts the provenance server's
\* hash_sentences answers the per-sentence hash list and the merkle root
\* that _provenance writes into prov.sentence_hashes and prov.merkle_root of
\* a record with those sentences, in the apps worker and in the
\* veritas-nexus worker.
AgreesWithServer(out) ==
    (srv_out # None /\ out # None) =>
        /\ out[1].sentence_hashes = srv_out[1].hashes
        /\ out[1].merkle_root = srv_out[1].merkle_root
C24_ServerVerifiesPipeline ==
    AgreesWithServer(prov_out) /\ AgreesWithServer(nexus_prov_out)

\* the server and both workers have hashed the same three sentences, not
\* all equal
C24_Witness ==
    /\ Len(sentences) = 3
    /\ sentences[1] # sentences[2]
    /\ srv_out # None /\ prov_out # None /\ nexus_prov_out # None

\* C25: the stage labels written to a job's status are, in this order,
\* queued, discover, canonicalize, provenance, analyze, done, or a prefix of
\* them: every write moves to the next label, except that the write of an
\* error status keeps the label it finds; and when _provenance reads the
\* corpus file, the file has been written.
StageOrder ==
    <<"queued", "discover", "canonicalize", "provenance", "analyze", "done">>
StageRank(stage) == CHOOSE k \in 1..Len(StageOrder) : StageOrder[k] = stage
StagesInOrder ==
    \A j \in JobIds :
        /\ (~HasStatus(j) /\ j \in DOMAIN status_json') =>
               status_json'[j].stage = "queued"
        /\ HasStatus(j) =>
            /\ j \in DOMAIN status_json'
            /\ status_json'[j] # StatusOf(j) =>
                  IF status_json'[j].state = "error"
                  THEN /\ status_json'[j].stage = StatusOf(j).stage
                       /\ StatusOf(j).state # "error"
                  ELSE StageRank(status_json'[j].stage) =
                           StageRank(StatusOf(j).stage) + 1
CorpusWrittenBeforeRead ==
    /\ \A j \in DOMAIN status_json :
          \E k \in 1..Len(StageOrder) : StageOrder[k] = StatusOf(j).stage
    /\ \A w \in Workers :
          pc[w] = "provenance" =>
              /\ item[w] \in DOMAIN corpus_jsonl
              /\ StatusOf(item[w]).stage = "provenance"
C25_StageOrder == []CorpusWrittenBeforeRead /\ [][StagesInOrder]_vars

\* a job of the apps worker went through every stage to done, and another
\* stopped with an error status in stage discover
C25_Witness ==
    /\ variant = "apps"
    /\ \E j, k \in JobIds :
          /\ HasStatus(j) /\ StatusOf(j).stage = "done"
          /\ j \in DOMAIN corpus_prov_jsonl
          /\ HasStatus(k) /\ StatusOf(k).stage = "discover"
          /\ StatusOf(k).state = "error"

\* C26: when the request carries a non-empty video_ids list the job
\* processes exactly those ids, in the order given, and yt-dlp is never run
\* for it; when video_ids is absent or empty the ids are the result of
\* discovery on the target.
IdsGiven(j) ==
    /\ j \in DOMAIN request_json
    /\ request_json[j].video_ids # None
    /\ request_json[j].video_ids[1] # <<>>
IdsAreTheRequested ==
    \A j \in JobIds :
        /\ IdsGiven(j) => discovery[j] = None
        /\ resolved[j] # None =>
              IF IdsGiven(j)
              THEN Resolved(j) = request_json[j].video_ids[1]
              ELSE /\ discovery[j] # None
                   /\ Resolved(j) = _yt_oldest_ids(discovery[j][1],
                                                   request_json[j].max_items)
ProcessedInOrder ==
    \A w \in Workers :
        pc[w] \in RunPcs \ {"run_job", "discover"} =>
            /\ vids[w] = Resolved(item[w])
            /\ idx[w] \in 1..(Len(vids[w]) + 1)
            /\ pc[w] # "fetch" => idx[w] = Len(vids[w]) + 1
            /\ \A n \in 1..Len(items[w]) :
                  \E k \in 1..(idx[w] - 1) :
                      vids[w][k] = items[w][n].meta.video_id
            /\ fetch_raised[item[w]] \subseteq
                  {vids[w][k] : k \in 1..(idx[w] - 1)}
C26_ExplicitIdOverride == IdsAreTheRequested /\ ProcessedInOrder

\* a job has fetched the two ids of its request, and a job without ids
\* has those of discovery
C26_Witness ==
    \E j, k \in JobIds :
        /\ IdsGiven(j) /\ Len(Resolved(j)) = 2
        /\ \E w \in Workers : item[w] = j /\ idx[w] = 3
        /\ ~IdsGiven(k) /\ discovery[k] # None /\ Resolved(k) # <<>>

\* C27: POST /jobs stores request.json and the queued status before it
\* pushes the id, so an id that is queued or held by a worker has both files
\* and run_job never starts without its request; apart from create_job the
\* API writes no status, and none at all once a worker was given the job; and
\* a status that has left state queued never has it again.
StoredBeforeQueued ==
    \A j \in JobIds :
        (InQueue(j) \/ \E w \in Workers : item[w] = j) =>
            /\ j \in DOMAIN request_json
            /\ HasStatus(j)
            /\ runs[j] = 0 => StatusOf(j).state = "queued"
WorkerIsOnlyWriter ==
    \A j \in JobIds :
        File(status_json, j)' # File(status_json, j) =>
            IF deq[j] = 0
            THEN api_pc[j] = "unused" /\ api_pc'[j] = "lpush"
            ELSE /\ api_pc' = api_pc
                 /\ \E w \in Workers : item[w] = j /\ pc[w] \in RunPcs
NeverBackToQueued ==
    \A j \in JobIds :
        (HasStatus(j) /\ StatusOf(j).state # "queued") =>
            /\ j \in DOMAIN status_json'
            /\ status_json'[j].state # "queued"
C27_SingleWriterNoRegression ==
    []StoredBeforeQueued /\ [][WorkerIsOnlyWriter /\ NeverBackToQueued]_vars

\* a job is running and its run then failed, while the POST of another job
\* has stored its files and not yet pushed the id
C27_Witness ==
    \E j, k \in JobIds :
        /\ raised[j] /\ runs[j] = 1 /\ StatusOf(j).state = "running"
        /\ api_pc[k] = "lpush" /\ HasStatus(k) /\ ~InQueue(k)

\* C28: in every reachable state a job whose persisted state is done has its
\* results, its canonical corpus and its provenance corpus written, and
\* GET /jobs/{id}/results for it answers 200, not 404: a client that polls
\* until it reads done and then asks for the results gets them.
C28_DoneImpliesArtifacts ==
    \A j \in JobIds :
        (HasStatus(j) /\ StatusOf(j).state = "done") =>
            /\ HasResults(j)
            /\ j \in DOMAIN corpus_jsonl
            /\ j \in DOMAIN corpus_prov_jsonl
            /\ Len(corpus_prov_jsonl[j]) = Len(corpus_jsonl[j])
            /\ status(j) = 200
            /\ results(j) = 200

\* a job is done whose fetches all failed, so that its corpus is empty, and
\* another job is done with a corpus of at least one record
C28_Witness ==
    \E j, k \in JobIds :
        /\ HasStatus(j) /\ StatusOf(j).state = "done"
        /\ j \in DOMAIN corpus_jsonl /\ corpus_jsonl[j] = <<>>
        /\ HasStatus(k) /\ StatusOf(k).state = "done"
        /\ k \in DOMAIN corpus_jsonl /\ corpus_jsonl[k] # <<>>

\* C29: the number of ids a job attempts to fetch never exceeds the
\* max_items of its request, whether the ids come from discovery or from the
\* video_ids of the request.
C29_ItemBudget ==
    /\ \A j \in JobIds :
          resolved[j] # None => Len(Resolved(j)) <= request_json[j].max_items
    /\ \A w \in Workers :
          pc[w] = "fetch" => idx[w] - 1 <= request_json[item[w]].max_items

\* C30: when the yt-dlp call of discovery fails (an error or the timeout)
\* run_job raises nothing: it returns, and the job has state error, stage
\* discover and the message "No videos found", which is the very status of
\* a job whose discovery ran and listed no video.
NoVideosStatus ==
    [state |-> "error", stage |-> "discover", progress |-> 10,
     message |-> "No videos found"]
DiscoveryFailed(j) == discovery[j] # None /\ ~discovery[j][1].ok
DiscoveryFoundNone(j) ==
    /\ discovery[j] # None /\ discovery[j][1].ok
    /\ resolved[j] = Some(<<>>)
C30_DiscoveryFailureAbsorbed ==
    \A j \in JobIds :
        (DiscoveryFailed(j) \/ DiscoveryFoundNone(j)) =>
            /\ returned[j] /\ ~raised[j]
            /\ \A w \in Workers : item[w] # j
            /\ StatusOf(j) = NoVideosStatus
            /\ ~HasResults(j) /\ j \notin DOMAIN corpus_jsonl

\* run_job returned for a job whose yt-dlp call failed
C30_Witness ==
    \E j \in JobIds : DiscoveryFailed(j) /\ returned[j] /\ deq[j] = 1
====
